---- MODULE Spec2Model ----
(***************************************************************************)
(* A model of xact.py: the xact() decorator / context manager, its         *)
(* _TransactionWrapper and the _Transaction object that sequences calls    *)
(* into django.db.transaction.                                             *)
(*                                                                         *)
(* Every thread has its own connection per database alias (Django keeps    *)
(* transaction state per thread), a stack of the xact blocks it is inside, *)
(* the exception in flight, and a record of the block it has just left.    *)
(* _TransactionWrapper objects are shared by all threads.                  *)
(***************************************************************************)
EXTENDS Integers, Sequences, FiniteSets, TLC

VARIABLES decl, objs, conn, stack, exc, done, nblocks

vars == <<decl, objs, conn, stack, exc, done, nblocks>>

-----------------------------------------------------------------------------
(* Bounds of the model *)

\* blocks entered in one run, all threads together: xact blocks, and entries
\* into transaction management by code other than xact
MaxBlocks == 2
\* nesting depth of xact blocks in one thread
MaxDepth == 2

Threads == {"t1", "t2"}
MainThread == "t1"
Wrappers == {"w1"}
Aliases == {"default", "other"}
Funcs == {"func"}

-----------------------------------------------------------------------------
(* Values *)

\* Python's None, where a name or an exception type is expected
None == "None"
\* self.sid = None, self.transaction = None: an optional is a sequence of length <= 1
NoSid == <<>>
NoTransaction == <<>>

DEFAULT_DB_ALIAS == "default"
TRANSACTIONS_MANAGED == FALSE
ISOLATION_LEVEL_AUTOCOMMIT == 0
ISOLATION_LEVEL_READ_COMMITTED == 1

\* class Rollback(Exception), a subclass of it, and an unrelated exception
Parent(cls) ==
    CASE cls = "Rollback" -> "Exception"
      [] cls = "RollbackSub" -> "Rollback"
      [] cls = "ValueError" -> "Exception"
      [] cls = "DatabaseError" -> "Exception"
      [] OTHER -> None

RECURSIVE issubclass(_, _)
issubclass(cls, base) ==
    IF cls = base THEN TRUE
    ELSE IF Parent(cls) = None THEN FALSE
    ELSE issubclass(Parent(cls), base)

\* what a body can raise, and what a failing database call can raise
BodyExc == {"Rollback", "RollbackSub", "ValueError"}
CallExc == {"DatabaseError", "RollbackSub"}

callable(x) == x \in Funcs

Last(s) == s[Len(s)]
Front(s) == SubSeq(s, 1, Len(s) - 1)

-----------------------------------------------------------------------------
(* django.db.transaction, as xact.py uses it: one connection *)

is_managed(c) == IF c.state # <<>> THEN Last(c.state) ELSE TRANSACTIONS_MANAGED

enter_transaction_management(c) ==
    [c EXCEPT !.state = Append(@, is_managed(c)),
              !.isolation = IF c.uses_autocommit
                            THEN ISOLATION_LEVEL_READ_COMMITTED ELSE @]

managed(c, flag) == [c EXCEPT !.state = Append(Front(@), flag)]

leave_transaction_management(c) == [c EXCEPT !.state = Front(@)]

savepoint(c) == [c EXCEPT !.spcount = @ + 1]

commit(c) == [c EXCEPT !.dirty = FALSE, !.spcount = 0]

rollback(c) == [c EXCEPT !.dirty = FALSE, !.spcount = 0]

_set_isolation_level(c, level) == [c EXCEPT !.isolation = level]

\* one call into the transaction API, as a block records it: the call, its
\* alias, its savepoint argument and what came of it ("ok", or what it raised)
Call(op, using, sid, info) == [op |-> op, using |-> using, sid |-> sid, info |-> info]

-----------------------------------------------------------------------------
(* class _Transaction *)

_Transaction(using) == [using |-> using, sid |-> NoSid]

\* __enter__ without the is_managed test: every block begins a transaction
TransactionEnterAlwaysOuter(self, c, t) ==
    [self |-> self,
     c |-> managed(enter_transaction_management(c), TRUE),
     log |-> <<Call("enter_transaction_management", self.using, NoSid, "ok"),
               Call("managed", self.using, NoSid, "ok")>>]

\* __enter__: the object, the connection and the calls made
TransactionEnter(self, c, t) ==
    IF is_managed(c)
    THEN LET sid == <<t, c.spcount + 1>> IN
         [self |-> [self EXCEPT !.sid = sid],
          c |-> savepoint(c),
          log |-> <<Call("savepoint", self.using, sid, "ok")>>]
    ELSE [self |-> self,
          c |-> managed(enter_transaction_management(c), TRUE),
          log |-> <<Call("enter_transaction_management", self.using, NoSid, "ok"),
                    Call("managed", self.using, NoSid, "ok")>>]

\* _leave_transaction_management without the isolation-level patch
LeaveWithoutReset(self, c) ==
    [c |-> leave_transaction_management(c),
     log |-> <<Call("leave_transaction_management", self.using, NoSid, "ok")>>]

_leave_transaction_management(self, c) ==
    LET c1 == leave_transaction_management(c)
        l1 == <<Call("leave_transaction_management", self.using, NoSid, "ok")>>
    IN IF ~is_managed(c1) /\ c1.uses_autocommit
       THEN [c |-> _set_isolation_level(c1, ISOLATION_LEVEL_AUTOCOMMIT),
             log |-> l1 \o <<Call("_set_isolation_level", self.using, NoSid, "ok")>>]
       ELSE [c |-> c1, log |-> l1]

\* __exit__ with the commit branch's `finally` left out: when commit raises,
\* the transaction is rolled back and the exception raised, and nothing else
TransactionExitNoFinally(self, c, exc_type, ce, re) ==
    LET ret == IF exc_type = None THEN "False"
               ELSE IF issubclass(exc_type, "Rollback") THEN "True" ELSE "False"
        Res(cc, ll, raised) ==
            [c |-> cc, log |-> ll, ret |-> IF raised = None THEN ret ELSE None,
             raised |-> raised]
        end == IF exc_type = None THEN "commit" ELSE "rollback"
        endsp == IF exc_type = None THEN "savepoint_commit" ELSE "savepoint_rollback"
        e1 == IF exc_type = None THEN ce ELSE re
    IN
    IF self.sid = NoSid
    THEN IF e1 = None
         THEN LET lv == _leave_transaction_management(
                            self, IF exc_type = None THEN commit(c) ELSE rollback(c)) IN
              Res(lv.c, <<Call(end, self.using, NoSid, "ok")>> \o lv.log, None)
         ELSE IF exc_type # None
         THEN Res(c, <<Call("rollback", self.using, NoSid, re)>>, re)
         ELSE Res(IF re = None THEN rollback(c) ELSE c,
                  <<Call("commit", self.using, NoSid, ce),
                    Call("rollback", self.using, NoSid, IF re = None THEN "ok" ELSE re)>>,
                  IF re = None THEN ce ELSE re)
    ELSE IF e1 = None
         THEN Res(c, <<Call(endsp, self.using, self.sid, "ok")>>, None)
         ELSE IF exc_type # None
         THEN Res(c, <<Call("savepoint_rollback", self.using, self.sid, re)>>, re)
         ELSE Res(c, <<Call("savepoint_commit", self.using, self.sid, ce),
                       Call("savepoint_rollback", self.using, self.sid,
                            IF re = None THEN "ok" ELSE re)>>,
                  IF re = None THEN ce ELSE re)

\* __exit__(exc_type, ...): ce and re are what the commit-side and the
\* rollback-side database call raise (None: the call succeeds).
\* The result: the connection, the calls made, the value returned ("True",
\* "False") and the exception __exit__ itself raised (None: it returned).
TransactionExit(self, c, exc_type, ce, re) ==
    LET ret == IF exc_type = None THEN "False"
               ELSE IF issubclass(exc_type, "Rollback") THEN "True" ELSE "False"
        Res(cc, ll, raised) ==
            [c |-> cc, log |-> ll, ret |-> IF raised = None THEN ret ELSE None,
             raised |-> raised]
    IN
    IF exc_type = None
    THEN IF self.sid = NoSid
         THEN IF ce = None
              THEN LET lv == _leave_transaction_management(self, commit(c)) IN
                   Res(lv.c, <<Call("commit", self.using, NoSid, "ok")>> \o lv.log, None)
              ELSE IF re = None
              THEN LET lv == _leave_transaction_management(self, rollback(c)) IN
                   Res(lv.c, <<Call("commit", self.using, NoSid, ce),
                               Call("rollback", self.using, NoSid, "ok")>> \o lv.log, ce)
              ELSE LET lv == _leave_transaction_management(self, c) IN
                   Res(lv.c, <<Call("commit", self.using, NoSid, ce),
                               Call("rollback", self.using, NoSid, re)>> \o lv.log, re)
         ELSE IF ce = None
              THEN Res(c, <<Call("savepoint_commit", self.using, self.sid, "ok")>>, None)
              ELSE IF re = None
              THEN Res(c, <<Call("savepoint_commit", self.using, self.sid, ce),
                            Call("savepoint_rollback", self.using, self.sid, "ok")>>, ce)
              ELSE Res(c, <<Call("savepoint_commit", self.using, self.sid, ce),
                            Call("savepoint_rollback", self.using, self.sid, re)>>, re)
    ELSE IF self.sid = NoSid
         THEN IF re = None
              THEN LET lv == _leave_transaction_management(self, rollback(c)) IN
                   Res(lv.c, <<Call("rollback", self.using, NoSid, "ok")>> \o lv.log, None)
              ELSE Res(c, <<Call("rollback", self.using, NoSid, re)>>, re)
         ELSE IF re = None
              THEN Res(c, <<Call("savepoint_rollback", self.using, self.sid, "ok")>>, None)
              ELSE Res(c, <<Call("savepoint_rollback", self.using, self.sid, re)>>, re)

-----------------------------------------------------------------------------
(* class _TransactionWrapper and xact() *)

_TransactionWrapper(using) == [using |-> using, transaction |-> NoTransaction]

\* __enter__ of the wrapper: the context-manager usage
WrapperEnter(self, c, t) ==
    LET s1 == IF self.transaction = NoTransaction
              THEN [self EXCEPT !.transaction = <<_Transaction(self.using)>>]
              ELSE self
        r == TransactionEnter(s1.transaction[1], c, t)
    IN [self |-> [s1 EXCEPT !.transaction = <<r.self>>], c |-> r.c, log |-> r.log]

\* __exit__ of the wrapper
WrapperExit(self, c, exc_type, ce, re) ==
    TransactionExit(self.transaction[1], c, exc_type, ce, re)

\* __call__(func): the closure `inner`, which keeps the wrapper as self
__call__(self, func) == [self |-> self, func |-> func]

IsInner(o) == "func" \in DOMAIN o

\* inner(*args) keeping the transaction state on the wrapper, as __enter__ does
InnerEnterShared(self, c, t) ==
    LET r == WrapperEnter(self, c, t)
    IN [self |-> r.self, txn |-> r.self.transaction[1], c |-> r.c, log |-> r.log]

\* inner(*args) ignoring the wrapper's alias
InnerEnterDefaultAlias(self, c, t) ==
    LET r == TransactionEnter(_Transaction(DEFAULT_DB_ALIAS), c, t)
    IN [self |-> self, txn |-> r.self, c |-> r.c, log |-> r.log]

\* inner(*args): entering `with _Transaction(self.using)`; txn is the object
\* the with statement holds for this call
InnerEnter(self, c, t) ==
    LET r == TransactionEnter(_Transaction(self.using), c, t)
    IN [self |-> self, txn |-> r.self, c |-> r.c, log |-> r.log]

\* inner(*args): leaving its with statement
InnerExit(txn, c, exc_type, ce, re) ==
    TransactionExit(txn, c, exc_type, ce, re)

xact(using) ==
    LET u == IF using = None THEN DEFAULT_DB_ALIAS ELSE using IN
    IF callable(u)
    THEN __call__(_TransactionWrapper(DEFAULT_DB_ALIAS), u)
    ELSE _TransactionWrapper(u)

\* what xact is called with: nothing, an alias, or (bare @xact) the function
XactArgs == {None} \cup Aliases \cup Funcs

-----------------------------------------------------------------------------------------------------------------------------------------------------
(* The state *)

\* the DATABASES setting: the backend of the default alias uses autocommit,
\* the other one does not
uses_autocommit(a) == a = DEFAULT_DB_ALIAS

NewConnection(autocommit) ==
    [state |-> <<>>, dirty |-> FALSE, spcount |-> 0, foreign |-> 0,
     uses_autocommit |-> autocommit,
     isolation |-> IF autocommit THEN ISOLATION_LEVEL_AUTOCOMMIT
                   ELSE ISOLATION_LEVEL_READ_COMMITTED]

\* no block left yet
NoBlock == [kind |-> None]

Init ==
    /\ decl \in [Wrappers -> XactArgs]
    /\ objs = [w \in Wrappers |-> xact(decl[w])]
    /\ conn = [t \in Threads |-> [a \in Aliases |-> NewConnection(uses_autocommit(a))]]
    /\ stack = [t \in Threads |-> <<>>]
    /\ exc = [t \in Threads |-> None]
    /\ done = [t \in Threads |-> NoBlock]
    /\ nblocks = 0

CanEnter(t) ==
    /\ exc[t] = None
    /\ nblocks < MaxBlocks
    /\ Len(stack[t]) < MaxDepth

\* a block a thread is inside: how it was made, the object its with statement
\* holds, and what its entry saw and did. For the record: again, the block's
\* wrapper was already entered by this thread when the block was entered;
\* reentered, it has been entered again since; swallowed, a savepoint block
\* inside this block has swallowed an exception.
Frame(kind, w, using, obj, c, log, again) ==
    [kind |-> kind, w |-> w, using |-> using, obj |-> obj,
     entry |-> IF is_managed(c) THEN "managed" ELSE "unmanaged",
     enter |-> log, again |-> again, reentered |-> FALSE, swallowed |-> FALSE]

\* the exception in flight once the with statement is done
AfterExit(exc_type, r) ==
    IF r.raised # None THEN r.raised
    ELSE IF r.ret = "True" THEN None
    ELSE exc_type

-----------------------------------------------------------------------------
(* The operations *)

\* a call of an xact-decorated function, up to the start of its body
DecoratedCall(t, w) ==
    /\ CanEnter(t)
    /\ LET o == objs[w]
           closure == IF IsInner(o) THEN o ELSE __call__(o, "func")
           self == closure.self
           c == conn[t][self.using]
           r == InnerEnter(self, c, t)
       IN /\ objs' = [objs EXCEPT ![w] = IF IsInner(o) THEN [o EXCEPT !.self = r.self]
                                         ELSE r.self]
          /\ conn' = [conn EXCEPT ![t][r.txn.using] = r.c]
          /\ stack' = [stack EXCEPT ![t] =
                         Append(@, Frame("dec", w, r.txn.using, r.txn, c, r.log, FALSE))]
    /\ nblocks' = nblocks + 1
    /\ done' = [done EXCEPT ![t] = NoBlock]
    /\ UNCHANGED <<decl, exc>>

\* `with x:` on a wrapper x made earlier by xact(...); the frames of x that
\* this thread is already inside are marked as entered again
WithEnter(t, w) ==
    /\ CanEnter(t)
    /\ ~IsInner(objs[w])
    /\ LET self == objs[w]
           c == conn[t][self.using]
           r == WrapperEnter(self, c, t)
           marked == [i \in 1..Len(stack[t]) |->
                        IF stack[t][i].kind = "with" /\ stack[t][i].w = w
                        THEN [stack[t][i] EXCEPT !.reentered = TRUE]
                        ELSE stack[t][i]]
       IN /\ objs' = [objs EXCEPT ![w] = r.self]
          /\ conn' = [conn EXCEPT ![t][self.using] = r.c]
          /\ stack' = [stack EXCEPT ![t] =
                         Append(marked, Frame("with", w, self.using, <<>>, c, r.log,
                                              marked # stack[t]))]
    /\ nblocks' = nblocks + 1
    /\ done' = [done EXCEPT ![t] = NoBlock]
    /\ UNCHANGED <<decl, exc>>

\* `with xact(arg):`, the wrapper made for this block
FreshWithEnter(t, arg) ==
    /\ CanEnter(t)
    /\ ~callable(arg)
    /\ LET self == xact(arg)
           c == conn[t][self.using]
           r == WrapperEnter(self, c, t)
       IN /\ conn' = [conn EXCEPT ![t][self.using] = r.c]
          /\ stack' = [stack EXCEPT ![t] =
                         Append(@, Frame("fresh", None, self.using, r.self, c, r.log, FALSE))]
    /\ nblocks' = nblocks + 1
    /\ done' = [done EXCEPT ![t] = NoBlock]
    /\ UNCHANGED <<decl, objs, exc>>

\* the transaction object a block's exit acts on
ExitObject(f) ==
    CASE f.kind = "dec" -> f.obj
      [] f.kind = "with" -> objs[f.w].transaction[1]
      [] f.kind = "fresh" -> f.obj.transaction[1]

\* the end of a block: its body returned, or an exception is leaving it
BlockExit(t, ce, re) ==
    /\ stack[t] # <<>>
    /\ LET f == Last(stack[t])
           c == conn[t][f.using]
           r == CASE f.kind = "dec" -> InnerExit(f.obj, c, exc[t], ce, re)
                  [] f.kind = "with" -> WrapperExit(objs[f.w], c, exc[t], ce, re)
                  [] f.kind = "fresh" -> WrapperExit(f.obj, c, exc[t], ce, re)
       IN /\ conn' = [conn EXCEPT ![t][f.using] = r.c]
          /\ exc' = [exc EXCEPT ![t] = AfterExit(exc[t], r)]
          /\ done' = [done EXCEPT ![t] =
                        [kind |-> f.kind, w |-> f.w, using |-> f.using,
                         entry |-> f.entry, enter |-> f.enter,
                         again |-> f.again, reentered |-> f.reentered,
                         swallowed |-> f.swallowed,
                         sid |-> ExitObject(f).sid, exc |-> exc[t],
                         exit |-> r.log, ret |-> r.ret, raised |-> r.raised,
                         depth |-> Len(stack[t])]]
          /\ stack' = [stack EXCEPT ![t] =
                         IF f.entry = "managed" /\ r.ret = "True"
                         THEN [i \in 1..(Len(@) - 1) |-> [@[i] EXCEPT !.swallowed = TRUE]]
                         ELSE Front(@)]
    /\ UNCHANGED <<decl, objs, nblocks>>

\* the body writes through the ORM, which marks the transaction dirty
BodyWrite(t) ==
    /\ exc[t] = None
    /\ stack[t] # <<>>
    /\ LET a == Last(stack[t]).using IN
          /\ conn[t][a].state # <<>>
          /\ ~conn[t][a].dirty
          /\ conn' = [conn EXCEPT ![t][a].dirty = TRUE]
    /\ done' = [done EXCEPT ![t] = NoBlock]
    /\ UNCHANGED <<decl, objs, stack, exc, nblocks>>

\* the body raises
BodyRaise(t, e) ==
    /\ exc[t] = None
    /\ stack[t] # <<>>
    /\ exc' = [exc EXCEPT ![t] = e]
    /\ done' = [done EXCEPT ![t] = NoBlock]
    /\ UNCHANGED <<decl, objs, conn, stack, nblocks>>

\* code around a block (an enclosing body, or the caller) catches the exception
UserCatch(t) ==
    /\ exc[t] # None
    /\ exc' = [exc EXCEPT ![t] = None]
    /\ done' = [done EXCEPT ![t] = NoBlock]
    /\ UNCHANGED <<decl, objs, conn, stack, nblocks>>

\* code other than xact enters transaction management (commit_manually,
\* autocommit and the like): enter_transaction_management(); managed(flag)
ForeignEnter(t, a, flag) ==
    /\ exc[t] = None
    /\ Len(stack[t]) <= 1
    /\ nblocks < MaxBlocks
    /\ nblocks' = nblocks + 1
    /\ conn' = [conn EXCEPT ![t][a] =
                  [managed(enter_transaction_management(@), flag)
                     EXCEPT !.foreign = @ + 1]]
    /\ done' = [done EXCEPT ![t] = NoBlock]
    /\ UNCHANGED <<decl, objs, stack, exc>>

\* ... and leaves it
ForeignLeave(t, a) ==
    /\ exc[t] = None
    /\ stack[t] = <<>>
    /\ conn[t][a].foreign > 0
    /\ conn[t][a].state # <<>>
    /\ conn' = [conn EXCEPT ![t][a] =
                  [leave_transaction_management(@) EXCEPT !.foreign = @ - 1]]
    /\ done' = [done EXCEPT ![t] = NoBlock]
    /\ UNCHANGED <<decl, objs, stack, exc, nblocks>>

\* one thread, and everything it and the database can do
Next ==
    \/ \E w \in Wrappers : DecoratedCall(MainThread, w)
    \/ \E w \in Wrappers : WithEnter(MainThread, w)
    \/ \E arg \in XactArgs : FreshWithEnter(MainThread, arg)
    \/ \E ce \in {None} \cup CallExc, re \in {None} \cup CallExc :
          BlockExit(MainThread, ce, re)
    \/ BodyWrite(MainThread)
    \/ \E e \in BodyExc : BodyRaise(MainThread, e)
    \/ UserCatch(MainThread)
    \/ \E a \in Aliases, flag \in BOOLEAN : ForeignEnter(MainThread, a, flag)
    \/ \E a \in Aliases : ForeignLeave(MainThread, a)

Spec == Init /\ [][Next]_vars

\* several threads at once, sharing the wrappers
NextThreads ==
    \/ \E t \in Threads, w \in Wrappers : DecoratedCall(t, w)
    \/ \E t \in Threads, w \in Wrappers : WithEnter(t, w)
    \/ \E t \in Threads, ce \in {None} \cup CallExc, re \in {None} \cup CallExc :
          BlockExit(t, ce, re)
    \/ \E t \in Threads, e \in BodyExc : BodyRaise(t, e)
    \/ \E t \in Threads : UserCatch(t)

SpecThreads == Init /\ [][NextThreads]_vars

-----------------------------------------------------------------------------
(* What the properties below speak of *)

Ops(log) == {log[i].op : i \in 1..Len(log)}

AllOk(log) == \A i \in 1..Len(log) : log[i].info = "ok"

HasOp(log, op) == op \in Ops(log)

\* the blocks a thread is inside, and the one it has just left
Inside(t) == {stack[t][i] : i \in 1..Len(stack[t])}
Left(t) == IF done[t] = NoBlock THEN {} ELSE {done[t]}

\* a block with transaction state of its own: a decorated call, or a with
\* statement on a wrapper made for it
OwnState(b) == b.kind \in {"dec", "fresh"}

Outer(b) == b.entry = "unmanaged"
Savepoint(b) == b.entry = "managed"

OuterEntry(b) ==
    b.enter = <<Call("enter_transaction_management", b.using, NoSid, "ok"),
                Call("managed", b.using, NoSid, "ok")>>

SavepointEntry(b) ==
    /\ Len(b.enter) = 1
    /\ b.enter[1].op = "savepoint"
    /\ b.enter[1].using = b.using
    /\ b.enter[1].sid # NoSid

\* the exit ends the transaction: commit or rollback, and nothing on savepoints
EndsTransaction(b) ==
    /\ Ops(b.exit) \subseteq {"commit", "rollback", "leave_transaction_management",
                              "_set_isolation_level"}
    /\ Ops(b.exit) \cap {"commit", "rollback"} # {}
    /\ \A i \in 1..Len(b.exit) : b.exit[i].using = b.using

\* the exit ends the block's own savepoint, and does nothing else
EndsOwnSavepoint(b) ==
    /\ b.exit # <<>>
    /\ \A i \in 1..Len(b.exit) :
          /\ b.exit[i].op \in {"savepoint_commit", "savepoint_rollback"}
          /\ b.exit[i].sid = b.enter[1].sid
          /\ b.exit[i].using = b.using

-----------------------------------------------------------------------------
(* C1: a block with transaction state of its own that is entered while       *)
(* is_managed(using) is false is an outer transaction: it calls              *)
(* enter_transaction_management and managed(True), creates no savepoint, and *)
(* ends with commit or rollback. Entered while is_managed(using) is true it  *)
(* is a savepoint block: it calls savepoint, and ends only with              *)
(* savepoint_commit or savepoint_rollback of that savepoint; it never calls  *)
(* commit, rollback, enter_transaction_management or                         *)
(* leave_transaction_management.                                             *)
C1_OuterOrSavepoint ==
    \A t \in Threads :
       /\ \A b \in Inside(t) \cup Left(t) :
             OwnState(b) =>
                /\ Outer(b) => OuterEntry(b)
                /\ Savepoint(b) => SavepointEntry(b)
       /\ \A b \in Left(t) :
             OwnState(b) =>
                /\ Outer(b) => EndsTransaction(b)
                /\ Savepoint(b) => EndsOwnSavepoint(b)

\* a savepoint block nested in an outer transaction of the same alias has
\* just released its savepoint
C1_Witness ==
    /\ done[MainThread] # NoBlock
    /\ OwnState(done[MainThread]) /\ Savepoint(done[MainThread])
    /\ HasOp(done[MainThread].exit, "savepoint_commit")
    /\ stack[MainThread] # <<>>
    /\ OwnState(Last(stack[MainThread])) /\ Outer(Last(stack[MainThread]))
    /\ Last(stack[MainThread]).using = done[MainThread].using

-----------------------------------------------------------------------------
(* C2: every outermost block that has been left, none of whose commit and    *)
(* rollback calls raised, has ended with exactly one commit or rollback on   *)
(* its alias: commit if and only if its body finished without an exception,  *)
(* rollback if and only if the body raised.                                  *)
C2Block(b) ==
    /\ Cardinality({i \in 1..Len(b.exit) : b.exit[i].op \in {"commit", "rollback"}
                                            /\ b.exit[i].using = b.using}) = 1
    /\ HasOp(b.exit, "commit") <=> b.exc = None
    /\ HasOp(b.exit, "rollback") <=> b.exc # None

NoEndRaised(b) ==
    \A i \in 1..Len(b.exit) :
       b.exit[i].op \in {"commit", "rollback"} => b.exit[i].info = "ok"

C2_CommitOrRollbackOnce ==
    \A t \in Threads : \A b \in Left(t) :
       Outer(b) /\ NoEndRaised(b) => C2Block(b)

\* what does hold: C2 of the blocks with transaction state of their own
C2_OwnState ==
    \A t \in Threads : \A b \in Left(t) :
       OwnState(b) /\ Outer(b) /\ NoEndRaised(b) => C2Block(b)

-----------------------------------------------------------------------------
(* C3: where the database calls of the exit succeed, a block left by an      *)
(* exception rolls back (rollback for an outer block, savepoint_rollback of  *)
(* its savepoint for a savepoint block); __exit__ returns True and the       *)
(* exception is gone if it is a Rollback or a subclass, returns False and the*)
(* exception goes on to the caller if it is not; __exit__ returns True in no *)
(* other case.                                                               *)
RolledBack(b) ==
    IF Outer(b)
    THEN /\ HasOp(b.exit, "rollback")
         /\ Ops(b.exit) \cap {"commit", "savepoint_commit", "savepoint_rollback"} = {}
    ELSE b.exit = <<Call("savepoint_rollback", b.using, b.enter[1].sid, "ok")>>

C3Block(t, b) ==
    /\ b.exc # None => RolledBack(b)
    /\ b.exc # None /\ issubclass(b.exc, "Rollback") =>
          b.ret = "True" /\ exc[t] = None
    /\ b.exc # None /\ ~issubclass(b.exc, "Rollback") =>
          b.ret = "False" /\ exc[t] = b.exc
    /\ b.ret = "True" => b.exc # None /\ issubclass(b.exc, "Rollback")

C3_RollbackSwallowed ==
    \A t \in Threads : \A b \in Left(t) : AllOk(b.exit) => C3Block(t, b)

\* what does hold: C3 of the blocks with transaction state of their own
C3_OwnState ==
    \A t \in Threads : \A b \in Left(t) :
       OwnState(b) /\ AllOk(b.exit) => C3Block(t, b)

-----------------------------------------------------------------------------
(* C4: an outermost block whose body finishes without an exception calls     *)
(* commit, whatever the connection's dirty flag is.                          *)
C4_CommitsWhenNotDirty ==
    \A t \in Threads : \A b \in Left(t) :
       Outer(b) /\ b.exc = None => HasOp(b.exit, "commit")

\* what does hold: C4 of the blocks with transaction state of their own
C4_OwnState ==
    \A t \in Threads : \A b \in Left(t) :
       OwnState(b) /\ Outer(b) /\ b.exc = None =>
          b.exit[1] = Call("commit", b.using, NoSid, b.exit[1].info)

-----------------------------------------------------------------------------
(* C5: with several threads and recursive calls running decorated functions  *)
(* at once, every call has its own _Transaction object: the object holds the *)
(* outer/savepoint decision and the savepoint id of this call's own entry    *)
(* (a savepoint of this thread's connection), the exit ends exactly the      *)
(* transaction or savepoint that entry began, and the wrapper of a decorated *)
(* function never holds transaction state.                                   *)
OwnDecision(t, b, sid) ==
    \/ Outer(b) /\ OuterEntry(b) /\ sid = NoSid
    \/ Savepoint(b) /\ SavepointEntry(b) /\ sid = b.enter[1].sid /\ sid[1] = t

C5_DecoratorReentrant ==
    /\ \A t \in Threads :
          /\ \A b \in Inside(t) : b.kind = "dec" => OwnDecision(t, b, b.obj.sid)
          /\ \A b \in Left(t) :
                b.kind = "dec" =>
                   /\ OwnDecision(t, b, b.sid)
                   /\ Outer(b) => EndsTransaction(b)
                   /\ Savepoint(b) => EndsOwnSavepoint(b)
    /\ \A w \in Wrappers :
          IsInner(objs[w]) => objs[w].self.transaction = NoTransaction

\* two threads are inside calls of the same decorated function, and one of
\* them is inside a recursive call of it
C5_Witness ==
    \E t1 \in Threads, t2 \in Threads :
       /\ t1 # t2
       /\ Len(stack[t1]) = 1 /\ Len(stack[t2]) = 1
       /\ stack[t1][1].kind = "dec" /\ stack[t2][1].kind = "dec"
       /\ stack[t1][1].w = stack[t2][1].w

\* a call of a decorated function is inside another call of it
C5_Recursion ==
    \E t \in Threads :
       /\ Len(stack[t]) = 2
       /\ stack[t][1].kind = "dec" /\ stack[t][2].kind = "dec"
       /\ stack[t][1].w = stack[t][2].w
       /\ Savepoint(stack[t][2])

-----------------------------------------------------------------------------
(* C6: when a wrapper x is entered again while it is entered (with x: with   *)
(* x:), the inner entry is a savepoint that the inner exit releases or rolls *)
(* back, and the outer exit still ends the outer transaction with commit or  *)
(* rollback and leaves transaction management.                               *)
C6_ContextManagerReentrant ==
    \A t \in Threads : \A b \in Left(t) :
       b.kind = "with" =>
          /\ b.again /\ Savepoint(b) => EndsOwnSavepoint(b)
          /\ b.reentered /\ Outer(b) =>
                /\ EndsTransaction(b)
                /\ HasOp(b.exit, "leave_transaction_management")

-----------------------------------------------------------------------------
(* C7: a call of a function decorated with @xact, @xact() or @xact(alias)    *)
(* does what `with xact(alias):` on a wrapper made for the block does from   *)
(* the same state: entering makes the same calls and leaves the same         *)
(* connection and transaction object, leaving makes the same calls, returns  *)
(* or raises the same and leaves the same exception in flight; bare @xact    *)
(* and xact() use DEFAULT_DB_ALIAS.                                          *)
C7Enter(t) ==
    LET f == Last(stack'[t])
        how == decl[f.w]
        ref == xact(IF callable(how) THEN None ELSE how)
        r == WrapperEnter(ref, conn[t][ref.using], t)
    IN /\ f.using = ref.using
       /\ callable(how) \/ how = None => f.using = DEFAULT_DB_ALIAS
       /\ how \in Aliases => f.using = how
       /\ f.enter = r.log
       /\ f.obj = r.self.transaction[1]
       /\ conn'[t] = [conn[t] EXCEPT ![ref.using] = r.c]

C7Exit(t) ==
    LET f == Last(stack[t])
        ref == [xact(f.using) EXCEPT !.transaction = <<f.obj>>]
    IN \E ce \in {None} \cup CallExc, re \in {None} \cup CallExc :
          LET r == WrapperExit(ref, conn[t][f.using], exc[t], ce, re) IN
             /\ done'[t].exit = r.log
             /\ done'[t].ret = r.ret
             /\ done'[t].raised = r.raised
             /\ conn'[t] = [conn[t] EXCEPT ![f.using] = r.c]
             /\ exc'[t] = AfterExit(exc[t], r)

C7_DecoratorAsContextManager ==
    [][\A t \in Threads :
          /\ (Len(stack'[t]) = Len(stack[t]) + 1 /\ Last(stack'[t]).kind = "dec")
                => C7Enter(t)
          /\ (Len(stack'[t]) = Len(stack[t]) - 1 /\ Last(stack[t]).kind = "dec")
                => C7Exit(t)]_vars

\* a call of a function decorated with bare @xact has just swallowed a Rollback
C7_Witness ==
    /\ done[MainThread] # NoBlock
    /\ done[MainThread].kind = "dec"
    /\ callable(decl[done[MainThread].w])
    /\ done[MainThread].exc = "Rollback"
    /\ done[MainThread].ret = "True"
    /\ HasOp(done[MainThread].exit, "rollback")

-----------------------------------------------------------------------------
(* C8: each leave_transaction_management of a block's exit is followed by    *)
(* setting the isolation level to ISOLATION_LEVEL_AUTOCOMMIT if and only if  *)
(* the connection is then not managed and its backend uses autocommit, on    *)
(* every path of the exit; the level is set nowhere else, and never by a     *)
(* savepoint block.                                                          *)
C8_IsolationLevel ==
    \A t \in Threads : \A b \in Left(t) :
       LET c == conn[t][b.using]
           n == Len(b.exit)
       IN /\ \A i \in 1..n :
                b.exit[i].op = "leave_transaction_management" =>
                   ((i < n /\ b.exit[i + 1].op = "_set_isolation_level")
                      <=> (~is_managed(c) /\ c.uses_autocommit))
          /\ \A i \in 1..n :
                b.exit[i].op = "_set_isolation_level" =>
                   /\ i > 1
                   /\ b.exit[i - 1].op = "leave_transaction_management"
                   /\ c.isolation = ISOLATION_LEVEL_AUTOCOMMIT
          /\ ~HasOp(b.enter, "_set_isolation_level")
          /\ Savepoint(b) => ~HasOp(b.exit, "_set_isolation_level")

\* an outermost block whose commit raised has left transaction management
\* and set the isolation level
C8_Witness ==
    /\ done[MainThread] # NoBlock
    /\ Outer(done[MainThread])
    /\ done[MainThread].exit[1].op = "commit"
    /\ done[MainThread].exit[1].info # "ok"
    /\ HasOp(done[MainThread].exit, "_set_isolation_level")

\* an outermost block has left transaction management on a connection that
\* uses autocommit and is still managed, and has not set the isolation level
C8_StillManaged ==
    /\ done[MainThread] # NoBlock
    /\ Outer(done[MainThread])
    /\ conn[MainThread][done[MainThread].using].uses_autocommit
    /\ HasOp(done[MainThread].exit, "leave_transaction_management")
    /\ ~HasOp(done[MainThread].exit, "_set_isolation_level")

-----------------------------------------------------------------------------
(* C9: where the database calls succeed, a savepoint block whose body raises *)
(* a Rollback rolls back its own savepoint and nothing else, and the         *)
(* exception stops there; an outermost block inside which that happened and  *)
(* whose body then finishes normally commits.                                *)
C9Block(t, b) ==
    /\ (Savepoint(b) /\ b.exc # None /\ issubclass(b.exc, "Rollback")
          /\ AllOk(b.exit)) =>
          /\ b.exit = <<Call("savepoint_rollback", b.using, b.enter[1].sid, "ok")>>
          /\ b.ret = "True"
          /\ exc[t] = None
    /\ (Outer(b) /\ b.swallowed /\ b.exc = None) => HasOp(b.exit, "commit")

C9_InnerRollbackStopsThere ==
    \A t \in Threads : \A b \in Left(t) : C9Block(t, b)

\* what does hold: C9 of the blocks with transaction state of their own
C9_OwnState ==
    \A t \in Threads : \A b \in Left(t) : OwnState(b) => C9Block(t, b)

-----------------------------------------------------------------------------
(* C10: where the database calls succeed, a block left by an exception that  *)
(* is not a Rollback makes, as the exception unwinds the stack of blocks     *)
(* innermost first, exactly these calls: savepoint_rollback of its own       *)
(* savepoint for a savepoint block; rollback, then                           *)
(* leave_transaction_management for the outermost block; no commit and no    *)
(* savepoint_commit; and the exception goes on to the caller.                *)
C10Block(t, b) ==
    (b.exc # None /\ ~issubclass(b.exc, "Rollback") /\ AllOk(b.exit)) =>
       /\ Savepoint(b) =>
             b.exit = <<Call("savepoint_rollback", b.using, b.enter[1].sid, "ok")>>
       /\ Outer(b) =>
             /\ Len(b.exit) >= 2
             /\ b.exit[1] = Call("rollback", b.using, NoSid, "ok")
             /\ b.exit[2] = Call("leave_transaction_management", b.using, NoSid, "ok")
             /\ Ops(b.exit) \subseteq {"rollback", "leave_transaction_management",
                                       "_set_isolation_level"}
       /\ exc[t] = b.exc

C10_UnwindOnError ==
    \A t \in Threads : \A b \in Left(t) : C10Block(t, b)

\* what does hold: C10 of the blocks with transaction state of their own
C10_OwnState ==
    \A t \in Threads : \A b \in Left(t) : OwnState(b) => C10Block(t, b)

-----------------------------------------------------------------------------
(* C11: a block whose body returned normally and whose transaction.commit    *)
(* raised calls transaction.rollback next, then leave_transaction_management *)
(* (once, and also when that rollback raised in turn), and its exit raises   *)
(* to the caller: the exception of the rollback if it raised, otherwise the  *)
(* exception of the commit, also when that one is a subclass of Rollback.    *)
NumOp(log, op) == Cardinality({i \in 1..Len(log) : log[i].op = op})

CommitRaised(b) ==
    /\ b.exc = None
    /\ \E i \in 1..Len(b.exit) : b.exit[i].op = "commit" /\ b.exit[i].info # "ok"

C11Block(t, b) ==
    CommitRaised(b) =>
       /\ Outer(b)
       /\ Len(b.exit) >= 3
       /\ b.exit[1].op = "commit" /\ b.exit[1].using = b.using
       /\ b.exit[2].op = "rollback" /\ b.exit[2].using = b.using
       /\ b.exit[3] = Call("leave_transaction_management", b.using, NoSid, "ok")
       /\ NumOp(b.exit, "leave_transaction_management") = 1
       /\ NumOp(b.exit, "commit") = 1
       /\ NumOp(b.exit, "rollback") = 1
       /\ b.ret = None
       /\ b.raised = IF b.exit[2].info = "ok" THEN b.exit[1].info ELSE b.exit[2].info
       /\ b.raised # None
       /\ exc[t] = b.raised

C11_CommitFailureRaised ==
    \A t \in Threads : \A b \in Left(t) : C11Block(t, b)

\* the commit of an outermost block raised a subclass of Rollback, the rollback
\* succeeded, and that exception is on its way to the caller
C11_Witness ==
    /\ done[MainThread] # NoBlock
    /\ Outer(done[MainThread])
    /\ CommitRaised(done[MainThread])
    /\ done[MainThread].exit[1].info = "RollbackSub"
    /\ done[MainThread].exit[2].info = "ok"
    /\ exc[MainThread] = "RollbackSub"

\* the rollback after the failed commit raised in turn; management was left
C11_RollbackRaised ==
    /\ done[MainThread] # NoBlock
    /\ CommitRaised(done[MainThread])
    /\ done[MainThread].exit[2].info = "DatabaseError"
    /\ HasOp(done[MainThread].exit, "leave_transaction_management")
    /\ exc[MainThread] = "DatabaseError"

-----------------------------------------------------------------------------
(* C12: every block left that entered transaction management has called      *)
(* leave_transaction_management exactly once in its exit, whatever the body  *)
(* and the database calls did; and once a thread is out of all its blocks,   *)
(* each of its connections is as deep in transaction management as before    *)
(* the blocks (as deep as other code has entered it), with is_managed at its *)
(* initial value where no other code has.                                    *)
C12Block(b) ==
    HasOp(b.enter, "enter_transaction_management") =>
       NumOp(b.exit, "leave_transaction_management") = 1

C12Balanced(t, a) ==
    stack[t] = <<>> =>
       /\ Len(conn[t][a].state) = conn[t][a].foreign
       /\ conn[t][a].foreign = 0 => is_managed(conn[t][a]) = TRANSACTIONS_MANAGED

C12_ManagementBalanced ==
    /\ \A t \in Threads : \A b \in Left(t) : C12Block(b)
    /\ \A t \in Threads, a \in Aliases : C12Balanced(t, a)

\* the rollback of a block left by an exception raised
RollbackRaised(b) == b.exc # None /\ b.raised # None

\* what does hold: a block with transaction state of its own leaves
\* transaction management once, unless its rollback raised
C12_OwnState ==
    \A t \in Threads : \A b \in Left(t) :
       (OwnState(b) /\ ~RollbackRaised(b)) => C12Block(b)

\* a block with transaction state of its own, left by an exception: its
\* rollback raised, it did not leave transaction management, and the
\* connection stays managed after the block
C12_RollbackRaisedNoLeave ==
    /\ done[MainThread] # NoBlock
    /\ OwnState(done[MainThread])
    /\ Outer(done[MainThread])
    /\ RollbackRaised(done[MainThread])
    /\ ~HasOp(done[MainThread].exit, "leave_transaction_management")
    /\ stack[MainThread] = <<>>
    /\ conn[MainThread][done[MainThread].using].foreign = 0
    /\ is_managed(conn[MainThread][done[MainThread].using])

====
